---------------------------- MODULE Spec2Model ----------------------------
(***************************************************************************)
(* State-machine model of the hotkey-synchronised audio capture engine:    *)
(*   SmartKeyboard   (src/devices/keyboard.py)                             *)
(*   SmartMicrophone (src/devices/microphone.py)                           *)
(*                                                                         *)
(* Specifications                                                          *)
(*   KbdSpec     the keyboard listener driven by physical key activity     *)
(*   MicSpec     the capture worker, pause/resume/stop/force_commit        *)
(*               callers and a device delivering arbitrary frames          *)
(*   MicFairSpec MicSpec with the scheduling fairness of running threads   *)
(*   MicLiveSpec MicFairSpec with a device that answers its reads          *)
(*   ScriptSpec  MicSpec's threads with the device delivering the fixed    *)
(*               frame script silence*3, speech*5, silence*3               *)
(*   SeqSpec     the worker with VAD enabled and the device delivering any *)
(*               frame sequence of a given length, no force_commit         *)
(*   FlushSpec   the worker and repeated force_commit calls                *)
(*   Spec        both devices side by side                                 *)
(***************************************************************************)
EXTENDS Integers, Sequences, FiniteSets, TLC

(***************************************************************************)
(* Bounds of the model.                                                    *)
(***************************************************************************)
\* number of key notifications the host input layer delivers
MaxNotes == 6
\* length of a configured hotkey list
MaxHotkeys == 2
\* number of frames the audio device delivers to an unscripted run
MaxFrames == 3
\* number of force_commit() calls
MaxCommits == 1
\* number of frames the audio device delivers to a run checked for liveness
MaxFairFrames == 2
\* length of the frame sequences a sequence-driven run draws from
MaxTape == 5
\* number of force_commit() calls in a run of repeated flushes
MaxSeqCommits == 2

VARIABLES
    \* ---- SmartKeyboard ----
    kbd_cfg,            \* the list handed to SmartKeyboard.__init__
    kbd_ok,             \* whether __init__ returned without raising
    hotkeys,            \* self._hotkeys
    current_hotkey,     \* self._current_hotkey
    toggle_debounce,    \* self._toggle_debounce
    kbdEvents,          \* DeviceKeyboardPressEvent.hotkey of every emit, in order
    down,               \* keys physically held down (host input layer)
    kstat,              \* history per key: cycles, presses, emits of the cycle, clean
    touched,            \* history: keys that had any notification
    nNotes,             \* history: notifications delivered so far
    \* ---- SmartMicrophone ----
    enable_vad,         \* self._enable_vad
    stream,             \* self._stream: "stopped", "active" or "closed"
    talk_enabled,       \* self._talk_enabled_event's flag
    stop_flag,          \* self._stop_flag
    is_speaking,        \* self._is_speaking
    audio_frames,       \* self._audio_frames
    recording_lock,     \* self._recording_lock: "free" or the thread holding it
    micEvents,          \* every DeviceMicrophoneVADEvent emitted, in order
    pcW,                \* where the worker running start() is
    data,               \* the worker's local `data`: the frame just read
    pcS,                \* where the thread calling stop() is
    pcF,                \* where the thread calling force_commit() is
    is_emit,            \* force_commit's argument
    nread,              \* frames the device has delivered
    tape,               \* what the device is going to deliver, in a run that
                        \* is driven by a frame sequence
    nfed,               \* history: frames for which _vad_record returned
    fault,              \* history: the step that raised inside start()
    resumed,            \* history: resume() or set_talk_enabled_event() was called
    wokeAt,             \* history: the frames read when the toggle was last set
                        \* on a blocked worker, -1 once paused or stopped
    stopBlocked,        \* history: stop() was called while the worker was blocked
    fcLog,              \* history: the is_emit argument of every force_commit() call
    fcSnap,             \* history: what force_commit found when it took the lock
    pauseSnap           \* history: the utterance the last pause() interrupted

kbdVars == <<kbd_cfg, kbd_ok, hotkeys, current_hotkey, toggle_debounce,
             kbdEvents, down, kstat, touched, nNotes>>

micVars == <<enable_vad, stream, talk_enabled, stop_flag, is_speaking,
             audio_frames, recording_lock, micEvents, pcW, data, pcS, pcF,
             is_emit, nread, tape, nfed, fault, resumed, wokeAt, stopBlocked,
             fcLog, fcSnap, pauseSnap>>

vars == <<kbdVars, micVars>>

(***************************************************************************)
(* Strings are sequences of one-character strings, so that strip() and     *)
(* lower() are computed.                                                   *)
(***************************************************************************)
IsSpace(c) == c = " "

LowerChar(c) ==
    CASE c = "A" -> "a"
      [] c = "F" -> "f"
      [] OTHER   -> c

lower(s) == [i \in 1..Len(s) |-> LowerChar(s[i])]

RECURSIVE lstrip(_)
lstrip(s) == IF s # <<>> /\ IsSpace(Head(s)) THEN lstrip(Tail(s)) ELSE s

RECURSIVE rstrip(_)
rstrip(s) ==
    IF s # <<>> /\ IsSpace(s[Len(s)]) THEN rstrip(SubSeq(s, 1, Len(s) - 1)) ELSE s

strip(s) == rstrip(lstrip(s))

(***************************************************************************)
(* pynput keys.  A Key (named key) and a KeyCode (character key) are       *)
(* records of the same shape; NoKey stands for Python's None.              *)
(***************************************************************************)
NamedKey(name) == [kind |-> "Key", id |-> name]
CharKey(ch)    == [kind |-> "KeyCode", id |-> ch]
NoKey          == [kind |-> "None", id |-> <<>>]

\* the names of pynput.keyboard.Key the model knows (Key.__members__)
KeyMembers == { <<"f", "8">> }

\* the configuration strings the model draws hotkey lists from
StrPool == { <<"a">>, <<" ", "a">>, <<"f", "8">>, <<"F", "8">>, <<>> }

\* the keys of the physical keyboard: two that can be configured, one that is not
PhysKeys == { CharKey(<<"a">>), NamedKey(<<"f", "8">>), CharKey(<<"b">>) }

\* SmartKeyboard.str_to_Key: [ok |-> FALSE] stands for the raised ValueError
str_to_Key(s) ==
    LET t    == strip(s)
        name == lower(t)
    IN  IF t = <<>> THEN [ok |-> FALSE, key |-> NoKey]
        ELSE IF name \in KeyMembers THEN [ok |-> TRUE, key |-> NamedKey(name)]
        ELSE IF Len(t) = 1 THEN [ok |-> TRUE, key |-> CharKey(t)]
        ELSE [ok |-> FALSE, key |-> NoKey]

\* SmartKeyboard.Key_to_str: the name of a Key, the char of a KeyCode
Key_to_str(k) == k.id

\* Python's `string in self._hotkeys`: the set holds Key and KeyCode objects,
\* and neither compares equal to a str
StrInKeys(s, keys) == \E k \in keys : FALSE

\* SmartKeyboard.__init__: the loop over the configured list
RECURSIVE InitLoop(_, _)
InitLoop(list, keys) ==
    IF list = <<>> THEN [ok |-> TRUE, keys |-> keys]
    ELSE IF StrInKeys(Head(list), keys) THEN [ok |-> FALSE, keys |-> keys]
    ELSE LET r == str_to_Key(Head(list))
         IN  IF ~r.ok THEN [ok |-> FALSE, keys |-> keys]
             ELSE InitLoop(Tail(list), keys \cup {r.key})

SmartKeyboard(list) == InitLoop(list, {})

HotkeyConfigs == UNION { [1..n -> StrPool] : n \in 0..MaxHotkeys }

KStat0 == [cycles |-> 0, presses |-> 0, emits |-> 0, clean |-> FALSE]

KbdInit ==
    /\ kbd_cfg \in HotkeyConfigs
    /\ kbd_ok = SmartKeyboard(kbd_cfg).ok
    /\ hotkeys = IF kbd_ok THEN SmartKeyboard(kbd_cfg).keys ELSE {}
    /\ current_hotkey = NoKey
    /\ toggle_debounce = FALSE
    /\ kbdEvents = <<>>
    /\ down = {}
    /\ kstat = [k \in PhysKeys |-> KStat0]
    /\ touched = {}
    /\ nNotes = 0

(***************************************************************************)
(* The listener callbacks.  pynput delivers them one at a time on its own  *)
(* thread, so each callback is one step.                                   *)
(***************************************************************************)
\* a plausible slip: the debounce flag is not consulted
on_key_press_nodebounce(key) ==
    IF key \notin hotkeys
    THEN UNCHANGED <<toggle_debounce, current_hotkey, kbdEvents>>
    ELSE /\ toggle_debounce' = TRUE
         /\ current_hotkey' = key
         /\ kbdEvents' = Append(kbdEvents, Key_to_str(key))

\* a plausible slip: the held key is recorded before the debounce test
on_key_press_rearm(key) ==
    IF key \notin hotkeys
    THEN UNCHANGED <<toggle_debounce, current_hotkey, kbdEvents>>
    ELSE IF toggle_debounce
    THEN /\ current_hotkey' = key
         /\ UNCHANGED <<toggle_debounce, kbdEvents>>
    ELSE /\ toggle_debounce' = TRUE
         /\ current_hotkey' = key
         /\ kbdEvents' = Append(kbdEvents, Key_to_str(key))

\* SmartKeyboard._on_key_press
on_key_press(key) ==
    IF key \notin hotkeys
    THEN UNCHANGED <<toggle_debounce, current_hotkey, kbdEvents>>
    ELSE IF toggle_debounce
    THEN UNCHANGED <<toggle_debounce, current_hotkey, kbdEvents>>
    ELSE /\ toggle_debounce' = TRUE
         /\ current_hotkey' = key
         /\ kbdEvents' = Append(kbdEvents, Key_to_str(key))

\* a plausible slip: any release clears the debounce flag
on_key_release_any(key) ==
    /\ toggle_debounce' = FALSE
    /\ current_hotkey' = NoKey
    /\ kbdEvents' = kbdEvents

\* a plausible slip: the release clears the flag and keeps the held key
on_key_release_keepheld(key) ==
    IF key = current_hotkey
    THEN /\ toggle_debounce' = FALSE
         /\ UNCHANGED <<current_hotkey, kbdEvents>>
    ELSE UNCHANGED <<toggle_debounce, current_hotkey, kbdEvents>>

\* SmartKeyboard._on_key_release
on_key_release(key) ==
    IF key = current_hotkey
    THEN /\ toggle_debounce' = FALSE
         /\ current_hotkey' = NoKey
         /\ kbdEvents' = kbdEvents
    ELSE UNCHANGED <<toggle_debounce, current_hotkey, kbdEvents>>

\* events appended by the step that carry the name of key j
NewEmits(j) ==
    Cardinality({ i \in (Len(kbdEvents) + 1)..Len(kbdEvents') :
                    kbdEvents'[i] = Key_to_str(j) })

Noted(k) ==
    /\ nNotes < MaxNotes
    /\ nNotes' = nNotes + 1
    /\ touched' = touched \cup {k}
    /\ UNCHANGED <<kbd_cfg, kbd_ok, hotkeys>>
    /\ UNCHANGED micVars

\* the key goes down: the first press notification of a cycle
KeyDown(k) ==
    /\ kbd_ok
    /\ k \notin down
    /\ down' = down \cup {k}
    /\ on_key_press(k)
    /\ Noted(k)
    /\ kstat' = [j \in PhysKeys |->
                   IF j = k
                   THEN [cycles  |-> kstat[k].cycles + 1,
                         presses |-> kstat[k].presses + 1,
                         emits   |-> NewEmits(k),
                         clean   |-> (down \cap hotkeys) \ {k} = {}]
                   ELSE [kstat[j] EXCEPT !.emits = @ + NewEmits(j)]]

\* OS key-repeat: the held key fires press again without a release
KeyRepeat(k) ==
    /\ kbd_ok
    /\ k \in down
    /\ down' = down
    /\ on_key_press(k)
    /\ Noted(k)
    /\ kstat' = [j \in PhysKeys |->
                   IF j = k
                   THEN [kstat[k] EXCEPT !.presses = @ + 1,
                                         !.emits = @ + NewEmits(k)]
                   ELSE [kstat[j] EXCEPT !.emits = @ + NewEmits(j)]]

\* the key goes up: the release notification that ends the cycle
KeyUp(k) ==
    /\ kbd_ok
    /\ k \in down
    /\ down' = down \ {k}
    /\ on_key_release(k)
    /\ Noted(k)
    /\ kstat' = [j \in PhysKeys |-> [kstat[j] EXCEPT !.emits = @ + NewEmits(j)]]

KbdNext ==
    \/ \E k \in PhysKeys : KeyDown(k)
    \/ \E k \in PhysKeys : KeyRepeat(k)
    \/ \E k \in PhysKeys : KeyUp(k)

(***************************************************************************)
(* SmartMicrophone.                                                        *)
(*                                                                         *)
(* Threads: the worker running start(); a thread calling stop() (two       *)
(* statements, so two steps); a thread calling force_commit(); pause(),    *)
(* resume(), set_talk_enabled_event() and unset_talk_enabled_event() are   *)
(* one statement on the Event each and so one step each.                   *)
(***************************************************************************)
\* self._channels
channels == 1
\* self._sample_rate
sample_rate == 16000
\* self._audio.get_sample_size(self._format) for paInt16
sample_width == 2

\* A frame as the device returns it: its bytes identify it (the id) and decide
\* how the VAD classifies it.
FrameKinds == {"silence", "speech"}
Frame(id, kind) == <<id, kind>>

\* webrtcvad's is_speech on a frame it accepts
is_speech(frame) == frame[2] = "speech"

\* b''.join(frames)
RECURSIVE Join(_)
Join(frames) == IF frames = <<>> THEN <<>> ELSE Head(frames) \o Join(Tail(frames))

\* a plausible slip: the first frame of the buffer is left out of the payload
WavWrite_dropfirst(frames) ==
    [nchannels |-> channels, sampwidth |-> sample_width,
     framerate |-> sample_rate, pcm |-> Join(Tail(frames))]

\* the wave module writing the frames to a BytesIO
WavWrite(frames) ==
    [nchannels |-> channels, sampwidth |-> sample_width,
     framerate |-> sample_rate, pcm |-> Join(frames)]

\* the DeviceMicrophoneVADEvent _emit_event builds
VADEvent(frames) ==
    [speech |-> WavWrite(frames), audio_type |-> "wav",
     channels |-> channels, sample_rate |-> sample_rate]

\* SmartMicrophone._emit_event: the events after the call
emit_event(events, frames) ==
    IF frames # <<>> THEN Append(events, VADEvent(frames)) ELSE events

\* the hotkey list of the shipped configuration (microphone_hotkey = 'f8')
DefaultHotkeys == << <<"f", "8">> >>

NoFrame == Frame(0, "silence")

\* the frame sequences of the sequence-driven runs: how the VAD is going to
\* classify each frame the device delivers
Tapes == [1..MaxTape -> FrameKinds]
NoTape == << >>
NoSnap == [taken |-> FALSE, speaking |-> FALSE, frames |-> <<>>,
           events |-> <<>>, nfed |-> 0]

\* SmartMicrophone.__init__: the device is opened and left stopped, the
\* toggle is cleared
MicInit ==
    /\ enable_vad \in BOOLEAN
    /\ stream = "stopped"
    /\ talk_enabled = FALSE
    /\ stop_flag = FALSE
    /\ is_speaking = FALSE
    /\ audio_frames = <<>>
    /\ recording_lock = "free"
    /\ micEvents = <<>>
    /\ pcW = "new"
    /\ data = NoFrame
    /\ pcS = "idle"
    /\ pcF = "idle"
    /\ is_emit = FALSE
    /\ nread = 0
    /\ tape \in Tapes \cup {NoTape}
    /\ nfed = 0
    /\ fault = "none"
    /\ resumed = FALSE
    /\ wokeAt = -1
    /\ stopBlocked = FALSE
    /\ fcLog = <<>>
    /\ fcSnap = NoSnap
    /\ pauseSnap = NoSnap

\* groups of variables a step leaves alone
devVars    == <<enable_vad, stream, tape>>
toggleVars == <<talk_enabled, resumed, wokeAt>>
bufVars    == <<is_speaking, audio_frames, micEvents>>
stopVars   == <<stop_flag, pcS, stopBlocked>>
fcVars     == <<pcF, is_emit, fcLog, fcSnap>>
readVars   == <<data, nread>>

\* a step of the worker that touches only its own position
WorkerOnly ==
    UNCHANGED <<kbdVars, enable_vad, tape, toggleVars, bufVars, stopVars,
                fcVars, readVars, recording_lock, nfed, fault, pauseSnap>>

\* threading.Event.set(): the flag is set and every waiter is woken
Woken(pc) == IF pc = "blocked" THEN "update2" ELSE pc

\* SmartMicrophone._stream_update: the stream after the call
stream_update(st) ==
    IF talk_enabled
    THEN (IF st # "active" THEN "active" ELSE st)
    ELSE (IF st = "active" THEN "stopped" ELSE st)

\* start(): self._stop_flag = False
start_init ==
    /\ pcW = "new"
    /\ stop_flag' = FALSE
    /\ pcW' = "while"
    /\ UNCHANGED <<kbdVars, devVars, toggleVars, bufVars, pcS, stopBlocked,
                   fcVars, readVars, recording_lock, nfed, fault, pauseSnap>>

\* start(): while not self._stop_flag
start_while ==
    /\ pcW = "while"
    /\ pcW' = IF stop_flag THEN "finally" ELSE "update1"
    /\ stream' = stream
    /\ WorkerOnly

\* start(): the first self._stream_update()
start_update1 ==
    /\ pcW = "update1"
    /\ stream' = stream_update(stream)
    /\ pcW' = "wait"
    /\ WorkerOnly

\* start(): self._talk_enabled_event.wait(); returns at once when the flag is
\* set, blocks otherwise
start_wait ==
    /\ pcW = "wait"
    /\ pcW' = IF talk_enabled THEN "update2" ELSE "blocked"
    /\ stream' = stream
    /\ WorkerOnly

\* start(): the second self._stream_update()
start_update2 ==
    /\ pcW = "update2"
    /\ stream' = stream_update(stream)
    /\ pcW' = "check"
    /\ WorkerOnly

\* start(): if self._stop_flag: break
start_check ==
    /\ pcW = "check"
    /\ pcW' = IF stop_flag THEN "finally" ELSE "read"
    /\ stream' = stream
    /\ WorkerOnly

\* start(): data = self._stream.read(...) returning a frame of the given kind
start_read(kind) ==
    /\ pcW = "read"
    /\ stream = "active"
    /\ data' = Frame(nread + 1, kind)
    /\ nread' = nread + 1
    /\ pcW' = "lock"
    /\ UNCHANGED <<kbdVars, devVars, toggleVars, bufVars, stopVars, fcVars,
                   recording_lock, nfed, fault, pauseSnap>>

\* start(): self._stream.read(...) raising: a device error, or a read from a
\* stream that is not active (PortAudio's paStreamIsStopped); the except
\* clause of start() logs it and control reaches finally
start_read_error ==
    /\ pcW = "read"
    /\ fault' = IF stream = "active" THEN "read" ELSE "read_stopped"
    /\ pcW' = "finally"
    /\ UNCHANGED <<kbdVars, devVars, toggleVars, bufVars, stopVars, fcVars,
                   readVars, recording_lock, nfed, pauseSnap>>

\* a plausible slip: the exception leaves start() past the finally clause
stream_update_error_escape ==
    /\ pcW \in {"update1", "update2"}
    /\ stream_update(stream) # stream
    /\ fault' = "stream"
    /\ pcW' = "done"
    /\ UNCHANGED <<kbdVars, devVars, toggleVars, bufVars, stopVars, fcVars,
                   readVars, recording_lock, nfed, pauseSnap>>

\* _stream_update: start_stream() or stop_stream() raising (a device error);
\* the stream is left as it was, the except clause of start() logs, control
\* reaches finally
stream_update_error ==
    /\ pcW \in {"update1", "update2"}
    /\ stream_update(stream) # stream
    /\ fault' = "stream"
    /\ pcW' = "finally"
    /\ UNCHANGED <<kbdVars, devVars, toggleVars, bufVars, stopVars, fcVars,
                   readVars, recording_lock, nfed, pauseSnap>>

\* a plausible slip: the lock is taken without waiting for it
start_lock_nowait ==
    /\ pcW = "lock"
    /\ recording_lock' = "worker"
    /\ pcW' = "vad"
    /\ UNCHANGED <<kbdVars, devVars, toggleVars, bufVars, stopVars, fcVars,
                   readVars, nfed, fault, pauseSnap>>

\* start(): with self._recording_lock
start_lock ==
    /\ pcW = "lock"
    /\ recording_lock = "free"
    /\ recording_lock' = "worker"
    /\ pcW' = "vad"
    /\ UNCHANGED <<kbdVars, devVars, toggleVars, bufVars, stopVars, fcVars,
                   readVars, nfed, fault, pauseSnap>>

\* a step of _vad_record
VadStep ==
    UNCHANGED <<kbdVars, devVars, toggleVars, stopVars, fcVars, readVars, fault>>

\* _vad_record returns: the with statement of start() releases the lock
VadReturn ==
    /\ recording_lock' = "free"
    /\ nfed' = nfed + 1

\* a plausible slip: the speaking flag is reset before it is tested, so the
\* end of the voice is never seen
vad_record_resetfirst ==
    /\ pcW = "vad"
    /\ IF enable_vad /\ ~is_speech(data)
       THEN /\ is_speaking' = FALSE
            /\ pcW' = "while"
            /\ VadReturn
       ELSE /\ is_speaking' = TRUE
            /\ pcW' = "append"
            /\ UNCHANGED <<recording_lock, nfed>>
    /\ UNCHANGED <<audio_frames, micEvents, pauseSnap>>
    /\ VadStep

\* a plausible slip: the enable_vad switch is not consulted
vad_record_alwaysvad ==
    /\ pcW = "vad"
    /\ IF ~is_speech(data)
       THEN /\ is_speaking' = FALSE
            /\ IF is_speaking
               THEN pcW' = "emit" /\ UNCHANGED <<recording_lock, nfed>>
               ELSE pcW' = "while" /\ VadReturn
       ELSE /\ is_speaking' = TRUE
            /\ pcW' = "append"
            /\ UNCHANGED <<recording_lock, nfed>>
    /\ UNCHANGED <<audio_frames, micEvents, pauseSnap>>
    /\ VadStep

\* a plausible slip: with VAD disabled the frame is buffered and the speaking
\* flag is left as it was
vad_record_noflag ==
    /\ pcW = "vad"
    /\ IF enable_vad /\ ~is_speech(data)
       THEN /\ is_speaking' = FALSE
            /\ IF is_speaking
               THEN pcW' = "emit" /\ UNCHANGED <<recording_lock, nfed>>
               ELSE pcW' = "while" /\ VadReturn
       ELSE /\ is_speaking' = (enable_vad \/ is_speaking)
            /\ pcW' = "append"
            /\ UNCHANGED <<recording_lock, nfed>>
    /\ UNCHANGED <<audio_frames, micEvents, pauseSnap>>
    /\ VadStep

\* _vad_record: the classification and the speaking flag; a silence frame
\* outside an utterance is discarded and _vad_record returns
vad_record ==
    /\ pcW = "vad"
    /\ IF enable_vad /\ ~is_speech(data)
       THEN /\ is_speaking' = FALSE
            /\ IF is_speaking
               THEN pcW' = "emit" /\ UNCHANGED <<recording_lock, nfed>>
               ELSE pcW' = "while" /\ VadReturn
       ELSE /\ is_speaking' = TRUE
            /\ pcW' = "append"
            /\ UNCHANGED <<recording_lock, nfed>>
    /\ UNCHANGED <<audio_frames, micEvents, pauseSnap>>
    /\ VadStep

\* _vad_record: self._vad.is_speech rejecting the frame and raising; the with
\* statement releases the lock, the except clause of start() logs, control
\* reaches finally
vad_record_error ==
    /\ pcW = "vad"
    /\ enable_vad
    /\ recording_lock' = "free"
    /\ fault' = "classify"
    /\ pcW' = "finally"
    /\ UNCHANGED <<kbdVars, devVars, toggleVars, bufVars, stopVars, fcVars,
                   readVars, nfed, pauseSnap>>

\* a plausible slip: the frame replaces the buffer instead of extending it
vad_append_overwrite ==
    /\ pcW = "append"
    /\ audio_frames' = <<data>>
    /\ pcW' = "while"
    /\ VadReturn
    /\ UNCHANGED <<is_speaking, micEvents, pauseSnap>>
    /\ VadStep

\* _vad_record: self._audio_frames.append(data), and _vad_record returns
vad_append ==
    /\ pcW = "append"
    /\ audio_frames' = Append(audio_frames, data)
    /\ pcW' = "while"
    /\ VadReturn
    /\ UNCHANGED <<is_speaking, micEvents, pauseSnap>>
    /\ VadStep

\* a plausible slip: the buffer is not cleared after the emission
vad_emit_noclear ==
    /\ pcW = "emit"
    /\ micEvents' = emit_event(micEvents, audio_frames)
    /\ audio_frames' = audio_frames
    /\ pauseSnap' = NoSnap
    /\ pcW' = "while"
    /\ VadReturn
    /\ UNCHANGED is_speaking
    /\ VadStep

\* _vad_record: self._emit_event(); self._audio_frames = [], and _vad_record
\* returns
vad_emit ==
    /\ pcW = "emit"
    /\ micEvents' = emit_event(micEvents, audio_frames)
    /\ audio_frames' = <<>>
    /\ pauseSnap' = NoSnap
    /\ pcW' = "while"
    /\ VadReturn
    /\ UNCHANGED is_speaking
    /\ VadStep

\* _vad_record: self._emit_event() raising while it writes or hands over the
\* segment; the speaking flag is already reset, the buffer is not cleared,
\* the with statement releases the lock, the except clause of start() logs,
\* control reaches finally
vad_emit_error ==
    /\ pcW = "emit"
    /\ audio_frames # <<>>
    /\ recording_lock' = "free"
    /\ fault' = "emit"
    /\ pcW' = "finally"
    /\ UNCHANGED <<kbdVars, devVars, toggleVars, bufVars, stopVars, fcVars,
                   readVars, nfed, pauseSnap>>

\* start(): finally: self._stream.stop_stream(); on a stream that is not
\* running the call returns at once
start_finally_stop ==
    /\ pcW = "finally"
    /\ stream' = "stopped"
    /\ pcW' = "close"
    /\ WorkerOnly

\* start(): finally: self._stream.close(); self._audio.terminate()
start_finally_close ==
    /\ pcW = "close"
    /\ stream' = "closed"
    /\ pcW' = "done"
    /\ WorkerOnly

\* what a caller finds: the utterance in progress
Snapshot ==
    [taken |-> TRUE, speaking |-> is_speaking, frames |-> audio_frames,
     events |-> micEvents, nfed |-> nfed]

\* what pause() finds when it is called during an utterance
PauseSnapshot ==
    IF is_speaking
    THEN [NoSnap EXCEPT !.taken = TRUE, !.speaking = TRUE, !.frames = audio_frames]
    ELSE NoSnap

ControlOnly ==
    UNCHANGED <<kbdVars, devVars, fcVars, readVars, recording_lock, nfed, fault>>

\* a plausible slip: pausing drops the utterance in progress
pause_discard ==
    /\ talk_enabled' = FALSE
    /\ pauseSnap' = PauseSnapshot
    /\ is_speaking' = FALSE
    /\ audio_frames' = <<>>
    /\ wokeAt' = -1
    /\ UNCHANGED <<micEvents, resumed, stopVars, pcW>>
    /\ ControlOnly

\* SmartMicrophone.pause
pause ==
    /\ talk_enabled' = FALSE
    /\ pauseSnap' = PauseSnapshot
    /\ wokeAt' = -1
    /\ UNCHANGED <<bufVars, resumed, stopVars, pcW>>
    /\ ControlOnly

\* a plausible slip: the toggle is set without waking the waiting worker
resume_nowake ==
    /\ talk_enabled' = TRUE
    /\ pcW' = pcW
    /\ resumed' = TRUE
    /\ wokeAt' = IF pcW = "blocked" THEN nread ELSE wokeAt
    /\ UNCHANGED <<bufVars, stopVars, pauseSnap>>
    /\ ControlOnly

\* SmartMicrophone.resume
resume ==
    /\ talk_enabled' = TRUE
    /\ pcW' = Woken(pcW)
    /\ resumed' = TRUE
    /\ wokeAt' = IF pcW = "blocked" THEN nread ELSE wokeAt
    /\ UNCHANGED <<bufVars, stopVars, pauseSnap>>
    /\ ControlOnly

\* SmartMicrophone.unset_talk_enabled_event
unset_talk_enabled_event ==
    /\ talk_enabled' = FALSE
    /\ pauseSnap' = PauseSnapshot
    /\ wokeAt' = -1
    /\ UNCHANGED <<bufVars, resumed, stopVars, pcW>>
    /\ ControlOnly

\* SmartMicrophone.set_talk_enabled_event
set_talk_enabled_event ==
    /\ talk_enabled' = TRUE
    /\ pcW' = Woken(pcW)
    /\ resumed' = TRUE
    /\ wokeAt' = IF pcW = "blocked" THEN nread ELSE wokeAt
    /\ UNCHANGED <<bufVars, stopVars, pauseSnap>>
    /\ ControlOnly

\* stop(): self._stop_flag = True
stop_flag_set ==
    /\ pcS = "idle"
    /\ stop_flag' = TRUE
    /\ pcS' = "set_event"
    /\ stopBlocked' = (stopBlocked \/ pcW = "blocked")
    /\ wokeAt' = -1
    /\ UNCHANGED <<bufVars, talk_enabled, resumed, pauseSnap, pcW>>
    /\ ControlOnly

\* the line stop() had before its fix: the toggle is cleared
stop_event_clear ==
    /\ pcS = "set_event"
    /\ talk_enabled' = FALSE
    /\ pcS' = "idle"
    /\ UNCHANGED <<bufVars, pcW, stop_flag, stopBlocked, resumed, wokeAt,
                   pauseSnap>>
    /\ ControlOnly

\* stop(): self._talk_enabled_event.set()
stop_event_set ==
    /\ pcS = "set_event"
    /\ talk_enabled' = TRUE
    /\ pcW' = Woken(pcW)
    /\ pcS' = "idle"
    /\ UNCHANGED <<bufVars, stop_flag, stopBlocked, resumed, wokeAt, pauseSnap>>
    /\ ControlOnly

\* a step of force_commit
CommitStep ==
    UNCHANGED <<kbdVars, devVars, toggleVars, stopVars, readVars, pcW, nfed,
                fault, is_emit, fcLog>>

\* force_commit(is_emit) is called, in a run that makes at most max calls
force_commit_upto(emit, max) ==
    /\ pcF = "idle"
    /\ Len(fcLog) < max
    /\ is_emit' = emit
    /\ fcLog' = Append(fcLog, emit)
    /\ pcF' = "fc_lock"
    /\ UNCHANGED <<kbdVars, devVars, toggleVars, bufVars, stopVars, readVars,
                   pcW, nfed, fault, recording_lock, fcSnap, pauseSnap>>

\* force_commit(is_emit) is called
force_commit_call(emit) == force_commit_upto(emit, MaxCommits)

\* force_commit: with self._recording_lock
force_commit_lock ==
    /\ pcF = "fc_lock"
    /\ recording_lock = "free"
    /\ recording_lock' = "committer"
    /\ fcSnap' = Snapshot
    /\ pcF' = "fc_test"
    /\ UNCHANGED <<bufVars, pauseSnap>>
    /\ CommitStep

\* a plausible slip: the is_emit argument is not consulted
force_commit_test_noemit ==
    /\ pcF = "fc_test"
    /\ IF is_speaking /\ audio_frames # <<>>
       THEN /\ is_speaking' = FALSE
            /\ pcF' = "fc_emit"
       ELSE /\ is_speaking' = is_speaking
            /\ pcF' = "fc_reset"
    /\ UNCHANGED <<audio_frames, micEvents, recording_lock, fcSnap, pauseSnap>>
    /\ CommitStep

\* force_commit: if self._is_speaking and self._audio_frames and is_emit:
\* self._is_speaking = False
force_commit_test ==
    /\ pcF = "fc_test"
    /\ IF is_speaking /\ audio_frames # <<>> /\ is_emit
       THEN /\ is_speaking' = FALSE
            /\ pcF' = "fc_emit"
       ELSE /\ is_speaking' = is_speaking
            /\ pcF' = "fc_reset"
    /\ UNCHANGED <<audio_frames, micEvents, recording_lock, fcSnap, pauseSnap>>
    /\ CommitStep

\* force_commit: self._emit_event()
force_commit_emit ==
    /\ pcF = "fc_emit"
    /\ micEvents' = emit_event(micEvents, audio_frames)
    /\ pcF' = "fc_reset"
    /\ UNCHANGED <<is_speaking, audio_frames, recording_lock, fcSnap, pauseSnap>>
    /\ CommitStep

\* a plausible slip: the buffer is not cleared by force_commit
force_commit_reset_keep ==
    /\ pcF = "fc_reset"
    /\ is_speaking' = FALSE
    /\ audio_frames' = audio_frames
    /\ pauseSnap' = NoSnap
    /\ pcF' = "fc_return"
    /\ UNCHANGED <<micEvents, recording_lock, fcSnap>>
    /\ CommitStep

\* force_commit: self._is_speaking = False; self._audio_frames = []
force_commit_reset ==
    /\ pcF = "fc_reset"
    /\ is_speaking' = FALSE
    /\ audio_frames' = <<>>
    /\ pauseSnap' = NoSnap
    /\ pcF' = "fc_return"
    /\ UNCHANGED <<micEvents, recording_lock, fcSnap>>
    /\ CommitStep

\* force_commit: the with statement releases the lock and the call returns
force_commit_return ==
    /\ pcF = "fc_return"
    /\ recording_lock' = "free"
    /\ fcSnap' = NoSnap
    /\ pcF' = "idle"
    /\ UNCHANGED <<bufVars, pauseSnap>>
    /\ CommitStep

\* the steps of the worker other than the device read and a rejected frame
WorkerProgress ==
    \/ start_init
    \/ start_while
    \/ start_update1
    \/ start_wait
    \/ start_update2
    \/ start_check
    \/ start_lock
    \/ vad_record
    \/ vad_append
    \/ vad_emit
    \/ start_finally_stop
    \/ start_finally_close

\* the steps of a force_commit call that has been made
CommitProgress ==
    \/ force_commit_lock
    \/ force_commit_test
    \/ force_commit_emit
    \/ force_commit_reset
    \/ force_commit_return

\* the calls made from other threads
Callers ==
    \/ pause
    \/ resume
    \/ unset_talk_enabled_event
    \/ set_talk_enabled_event
    \/ stop_flag_set
    \/ stop_event_set
    \/ \E emit \in BOOLEAN : force_commit_call(emit)

\* the steps that do not depend on what the device delivers
Threads ==
    \/ WorkerProgress
    \/ CommitProgress
    \/ Callers
    \/ start_read_error
    \/ vad_record_error
    \/ stream_update_error
    \/ vad_emit_error

\* the device delivers frames of any kind
MicNext ==
    \/ Threads
    \/ \E kind \in FrameKinds : nread < MaxFrames /\ start_read(kind)

\* the liveness runs: a shorter supply of frames; of the calls that set or
\* clear the toggle only pause() and resume() (the set_ and unset_ calls do
\* the same to the Event); of the raising steps the read and the classifier
MicFairNext ==
    \/ WorkerProgress
    \/ CommitProgress
    \/ pause
    \/ resume
    \/ stop_flag_set
    \/ stop_event_set
    \/ \E emit \in BOOLEAN : force_commit_call(emit)
    \/ start_read_error
    \/ vad_record_error
    \/ \E kind \in FrameKinds : nread < MaxFairFrames /\ start_read(kind)

\* the frame script of the segmentation tests: silence*3, speech*5, silence*3
Script ==
    <<"silence", "silence", "silence",
      "speech", "speech", "speech", "speech", "speech",
      "silence", "silence", "silence">>

\* the device delivers the script, the toggle is switched on and left on
ScriptNext ==
    \/ WorkerProgress
    \/ CommitProgress
    \/ resume
    \/ stop_flag_set
    \/ stop_event_set
    \/ \E emit \in BOOLEAN : force_commit_call(emit)
    \/ nread < Len(Script) /\ start_read(Script[nread + 1])

\* the device delivers the frames of the tape; the toggle is switched on and
\* off and stop is called, force_commit is not
SeqNext ==
    \/ WorkerProgress
    \/ pause
    \/ resume
    \/ stop_flag_set
    \/ stop_event_set
    \/ nread < Len(tape) /\ start_read(tape[nread + 1])

\* the device delivers frames of any kind; the toggle is switched on and left
\* on, force_commit is called more than once, stop is called
FlushNext ==
    \/ WorkerProgress
    \/ CommitProgress
    \/ resume
    \/ stop_flag_set
    \/ stop_event_set
    \/ \E emit \in BOOLEAN : force_commit_upto(emit, MaxSeqCommits)
    \/ \E kind \in FrameKinds : nread < MaxFrames /\ start_read(kind)

Next == KbdNext \/ MicNext

Init == KbdInit /\ MicInit

\* the keyboard alone, beside an idle microphone
KbdStart == Init /\ enable_vad = FALSE /\ tape = NoTape

\* the microphone alone, beside the keyboard of the shipped configuration
MicStart == Init /\ kbd_cfg = DefaultHotkeys /\ tape = NoTape

Spec == Init /\ [][Next]_vars

KbdSpec == KbdStart /\ [][KbdNext]_vars

MicSpec == MicStart /\ [][MicNext]_vars

\* threads that can run do run; a device read may block for ever
MicFairSpec ==
    /\ MicStart
    /\ [][MicFairNext]_vars
    /\ WF_vars(WorkerProgress \/ vad_record_error)
    /\ WF_vars(CommitProgress)
    /\ WF_vars(stop_event_set)

\* MicFairSpec with a device that answers: a read of the active stream
\* returns a frame while the device has one, a read of a stream that is not
\* active raises at once
MicLiveSpec ==
    /\ MicFairSpec
    /\ WF_vars(\E kind \in FrameKinds : nread < MaxFairFrames /\ start_read(kind))
    /\ WF_vars(stream # "active" /\ start_read_error)

ScriptSpec == MicStart /\ [][ScriptNext]_vars

\* the microphone with VAD enabled, fed every frame sequence of length MaxTape
SeqStart == Init /\ kbd_cfg = DefaultHotkeys /\ tape \in Tapes /\ enable_vad

SeqSpec == SeqStart /\ [][SeqNext]_vars

FlushSpec == MicStart /\ [][FlushNext]_vars

(***************************************************************************)
(* Claims about SmartKeyboard, checked under KbdSpec.                      *)
(***************************************************************************)
\* the events N cycles of key k are to produce: N times the name of k
NameTimes(k, n) == [i \in 1..n |-> Key_to_str(k)]

\* C1: when every notification so far concerns one configured hotkey k
\* (cycles of press, repeated presses, release), the emitted events are
\* exactly one per cycle started, each carrying k's name: the first press of
\* a cycle emits and the repeated presses emit nothing.
C1_OnePerCycle ==
    \A k \in hotkeys :
        touched \subseteq {k} => kbdEvents = NameTimes(k, kstat[k].cycles)

\* two completed cycles of one hotkey, with key-repeat, and two events
C1_Witness ==
    \E k \in hotkeys :
        /\ touched = {k}
        /\ k \notin down
        /\ kstat[k].cycles = 2
        /\ kstat[k].presses > kstat[k].cycles
        /\ Len(kbdEvents) = 2

\* C2 as stated: every completed press-and-release cycle of a mapped key has
\* produced exactly one event carrying that key's name, whatever the
\* interleaving with other keys.
C2_Original ==
    \A k \in hotkeys :
        (k \notin down /\ kstat[k].cycles > 0) => kstat[k].emits = 1

\* C2 amended: a cycle of a mapped key produces at most one event carrying
\* that key's name, and exactly one (at its first press) when no other
\* mapped key is down at that first press; unmapped keys produce none.
C2_AtMostOnePerCycle ==
    \A k \in PhysKeys :
        /\ kstat[k].emits <= 1
        /\ (k \in hotkeys /\ kstat[k].cycles > 0 /\ kstat[k].clean)
              => kstat[k].emits = 1
        /\ k \notin hotkeys => kstat[k].emits = 0

\* two mapped keys held at once, then both released: the first produced its
\* event, the second, pressed while the first was held, produced none
C2_Witness ==
    \E k1, k2 \in hotkeys :
        /\ k1 # k2
        /\ down = {}
        /\ kstat[k1].cycles = 1 /\ kstat[k1].clean /\ kstat[k1].emits = 1
        /\ kstat[k2].cycles = 1 /\ ~kstat[k2].clean /\ kstat[k2].emits = 0
        /\ kstat[k2].presses > 1

(***************************************************************************)
(* Claims about SmartMicrophone.                                           *)
(***************************************************************************)
\* force_commit() calls made, and whether one of them asked to emit
nCommits == Len(fcLog)
EmitAsked == \E i \in 1..Len(fcLog) : fcLog[i]

IsPrefix(p, q) == Len(p) <= Len(q) /\ SubSeq(q, 1, Len(p)) = p

\* the frames of a written WAV payload, read back frame by frame
FrameSize == Len(NoFrame)
PcmFrames(pcm) ==
    [i \in 1..(Len(pcm) \div FrameSize) |->
        SubSeq(pcm, (i - 1) * FrameSize + 1, i * FrameSize)]

\* the frames the scripted device delivers
ScriptFrames == [i \in 1..Len(Script) |-> Frame(i, Script[i])]

\* where the worker holds the recording lock, and where force_commit does
WorkerCS == {"vad", "append", "emit"}
CommitCS == {"fc_test", "fc_emit", "fc_reset", "fc_return"}
WorkerLeft == {"finally", "close", "done"}

\* C3 as stated: the device stream is active only if resume() (the set-toggle
\* signal) was called earlier; construction, start(), pause(), stop() and
\* force_commit() never start the stream by themselves.  (MicSpec)
C3_ActiveOnlyAfterResume == stream = "active" => resumed

\* C4: when stop() is called while the worker is blocked waiting for the
\* toggle, the worker wakes up, sees the stop flag and leaves start().
\* (MicFairSpec)
C4_StopWakesBlockedWorker == stopBlocked ~> (pcW = "done")

\* stop() was called on a blocked worker, and the worker has left start()
C4_Witness == stopBlocked /\ pcW = "done" /\ fault = "none"

\* C5: when force_commit(is_emit) is about to return, the speaking flag is
\* false, the buffer is empty, and the events are those it found plus exactly
\* one segment holding the buffer it found if it found the engine speaking and
\* is_emit is true, and exactly those it found otherwise.  (MicSpec)
C5_ForceCommitEffect ==
    pcF = "fc_return" =>
        /\ is_speaking = FALSE
        /\ audio_frames = <<>>
        /\ micEvents = IF fcSnap.speaking /\ is_emit
                       THEN Append(fcSnap.events, VADEvent(fcSnap.frames))
                       ELSE fcSnap.events

\* force_commit(True) found an utterance in progress and emitted it
C5_Witness ==
    /\ pcF = "fc_return"
    /\ fcSnap.speaking /\ is_emit
    /\ fcSnap.frames # <<>>
    /\ Len(micEvents) = Len(fcSnap.events) + 1

\* C6: the worker is inside _vad_record only while it holds the recording
\* lock and force_commit is inside its body only while it holds the lock (so
\* the two are never inside together), and every step that changes the
\* speaking flag, the buffer or the emitted events is a step of the thread
\* that holds the lock.  (MicSpec)
C6_LockDiscipline ==
    /\ [](/\ pcW \in WorkerCS => recording_lock = "worker"
          /\ pcF \in CommitCS => recording_lock = "committer")
    /\ [][bufVars' # bufVars =>
            \/ recording_lock = "worker" /\ pcW \in WorkerCS /\ pcF' = pcF
            \/ recording_lock = "committer" /\ pcF \in CommitCS /\ pcW' = pcW]_vars

\* force_commit waits for the lock while the worker is half way through
\* _vad_record: the flag is set, the frame is not appended yet
C6_Witness ==
    /\ pcF = "fc_lock"
    /\ pcW = "append"
    /\ is_speaking /\ audio_frames = <<>>

\* C7: with VAD enabled and no force_commit, the scripted frames silence*3,
\* speech*5, silence*3 emit nothing while at most 8 frames have been
\* processed, and from the 9th frame on (the first silence after the speech)
\* exactly one segment, holding exactly the 5 speech frames.  (ScriptSpec)
C7_ScriptedVad ==
    (enable_vad /\ nCommits = 0) =>
        micEvents = IF nfed >= 9
                    THEN << VADEvent(SubSeq(ScriptFrames, 4, 8)) >>
                    ELSE << >>

\* the whole script was processed and one segment was emitted
C7_Witness ==
    /\ enable_vad /\ nCommits = 0
    /\ nfed = Len(Script)
    /\ Len(micEvents) = 1

\* C8 as stated: with VAD disabled nothing is emitted before
\* force_commit(True) is called, and that call, made after the script was
\* fed, emits exactly one segment, which holds 8 frames.  (ScriptSpec)
C8_Original ==
    ~enable_vad =>
        /\ ~EmitAsked => micEvents = << >>
        /\ (pcF = "fc_return" /\ nCommits = 1 /\ is_emit
              /\ fcSnap.nfed = Len(Script))
            => /\ Len(micEvents) = 1
               /\ Len(PcmFrames(micEvents[1].speech.pcm)) = 8

\* C8 amended: with VAD disabled nothing is emitted before force_commit(True)
\* is called, and that call, made after the script was fed, emits exactly one
\* segment, which holds all 11 frames of the script in order.  (ScriptSpec)
C8_AllFramesOnCommit ==
    ~enable_vad =>
        /\ ~EmitAsked => micEvents = << >>
        /\ (pcF = "fc_return" /\ nCommits = 1 /\ is_emit
              /\ fcSnap.nfed = Len(Script))
            => /\ Len(micEvents) = 1
               /\ PcmFrames(micEvents[1].speech.pcm) = ScriptFrames

\* the script was fed with VAD disabled, then force_commit(True) emitted
C8_Witness ==
    /\ ~enable_vad
    /\ pcF = "fc_return" /\ nCommits = 1 /\ is_emit
    /\ fcSnap.nfed = Len(Script)
    /\ Len(micEvents) = 1

\* C9: pause() changes neither the speaking flag nor the buffer and emits
\* nothing; the frames buffered when pause() interrupted an utterance stay
\* the head of the buffer, with the frames captured later behind them, until
\* the utterance ends; and what is then emitted is that whole buffer.
\* (MicSpec)
C9_PauseKeepsUtterance ==
    /\ [][pause => UNCHANGED bufVars]_vars
    /\ [](pauseSnap.taken => IsPrefix(pauseSnap.frames, audio_frames))
    /\ [][(pauseSnap.taken /\ micEvents' # micEvents)
            => micEvents' = Append(micEvents, VADEvent(audio_frames))]_vars

\* an utterance was paused, capture was resumed, and a frame captured after
\* the resume sits in the same buffer behind the frames buffered before
C9_Witness ==
    /\ pauseSnap.taken /\ pauseSnap.frames # <<>>
    /\ resumed /\ talk_enabled
    /\ Len(audio_frames) >= Len(pauseSnap.frames) + 2

\* C10 as stated: after a frame read error or a classification error the
\* worker, unless stopped, is still in its loop.  (MicSpec)
C10_Original ==
    (fault \in {"read", "classify"} /\ ~stop_flag) => pcW \notin WorkerLeft

\* the steps of start() that can raise inside the try block
Faults == {"stream", "read", "read_stopped", "classify", "emit"}

\* C11: however the worker leaves the loop of start() (the stop flag, or an
\* exception raised by a stream start/stop, a device read, the classification
\* or the emission), it leaves through finally: an exception always takes it
\* there, the stream is stopped before it is closed, and it is closed when
\* the worker has left start().  (MicSpec)
C11_ClosedBeforeExit ==
    /\ fault \in Faults => pcW \in WorkerLeft
    /\ pcW = "close" => stream = "stopped"
    /\ pcW = "done" => stream = "closed"

\* starting or stopping the stream raised, and the worker left start() with
\* the stream closed
C11_Witness == pcW = "done" /\ fault = "stream" /\ stream = "closed"

\* the worker waits in stream.read for a frame the device never delivers
DeviceStalled == pcW = "read" /\ stream = "active" /\ nread >= MaxFairFrames

\* C12 as stated: in every execution in which stop() is called the device
\* ends up closed (unless the device stalls a read for ever), and it is never
\* closed more than once (once closed it stays closed).  (MicFairSpec)
C12_Original ==
    /\ (pcS = "set_event") ~> (stream = "closed" \/ DeviceStalled)
    /\ [][stream = "closed" => stream' = "closed"]_vars

\* C13 as stated: once the toggle is cleared (pause()), unless resume() or
\* stop() is called, the loop eventually has the device stream inactive
\* (unless the worker is still waiting in a device read).  (MicFairSpec)
C13_Original ==
    (~talk_enabled /\ ~stop_flag)
        ~> (talk_enabled \/ stop_flag \/ stream # "active" \/ pcW = "read")

\* decoding a WAV payload: its header fields and its samples frame by frame
WavRead(wav) ==
    [nchannels |-> wav.nchannels, framerate |-> wav.framerate,
     frames |-> PcmFrames(wav.pcm)]

\* C16: every step that emits appends exactly one segment, and that segment
\* decodes to exactly the frames that were in the buffer when the step began,
\* in buffering order and with nothing added, with sample rate 16000 and
\* channel count 1 both in the WAV header and in the event.  (MicSpec)
C16_RoundTrip ==
    [][micEvents' # micEvents =>
         /\ Len(micEvents') = Len(micEvents) + 1
         /\ SubSeq(micEvents', 1, Len(micEvents)) = micEvents
         /\ LET e == micEvents'[Len(micEvents')]
            IN  /\ WavRead(e.speech).frames = audio_frames
                /\ Len(e.speech.pcm) = FrameSize * Len(audio_frames)
                /\ WavRead(e.speech).framerate = 16000
                /\ WavRead(e.speech).nchannels = 1
                /\ e.sample_rate = 16000
                /\ e.channels = 1]_vars

\* a segment of two frames was emitted and decodes to two frames
C16_Witness ==
    \E i \in 1..Len(micEvents) :
        /\ Len(WavRead(micEvents[i].speech).frames) = 2
        /\ micEvents[i].sample_rate = 16000

\* the first n frames of the tape, as the device delivers them
Fed(n) == [i \in 1..n |-> Frame(i, tape[i])]

\* the maximal runs of speech frames among the first n frames of the tape
\* that are followed by a silence frame: <<first, last>> of each
SpeechRuns(n) ==
    { r \in (1..n) \X (1..n) :
        /\ r[1] <= r[2] /\ r[2] < n
        /\ \A k \in r[1]..r[2] : tape[k] = "speech"
        /\ r[1] = 1 \/ tape[r[1] - 1] = "silence"
        /\ tape[r[2] + 1] = "silence" }

\* the run of speech frames the first n frames of the tape end with
TrailingRun(n) ==
    LET first == CHOOSE i \in 1..(n + 1) :
                     /\ \A k \in i..n : tape[k] = "speech"
                     /\ i = 1 \/ tape[i - 1] = "silence"
    IN  SubSeq(Fed(n), first, n)

\* C17: with VAD enabled and no force_commit, whatever the frame sequence,
\* after n frames have been processed the emitted segments are, in capture
\* order, exactly the maximal runs of speech frames that a silence frame
\* followed (so no silence frame is in a segment), and the buffer is the run
\* of speech frames the sequence ends with.  (SeqSpec)
C17_SpeechRuns ==
    (enable_vad /\ nCommits = 0) =>
        /\ Len(micEvents) = Cardinality(SpeechRuns(nfed))
        /\ \A k \in 1..Len(micEvents) :
              \E r \in SpeechRuns(nfed) :
                 /\ Cardinality({q \in SpeechRuns(nfed) : q[1] < r[1]}) = k - 1
                 /\ WavRead(micEvents[k].speech).frames
                        = SubSeq(Fed(nfed), r[1], r[2])
        /\ audio_frames = TrailingRun(nfed)

\* two utterances were emitted and a third is being buffered
C17_Witness ==
    /\ enable_vad /\ nCommits = 0
    /\ Len(micEvents) = 2
    /\ audio_frames # <<>>

\* the frames of all the segments emitted, in order of emission
RECURSIVE EmittedFrames(_)
EmittedFrames(events) ==
    IF events = <<>> THEN <<>>
    ELSE WavRead(Head(events).speech).frames \o EmittedFrames(Tail(events))

\* no captured frame occurs twice in the sequence
NoRepeat(frames) ==
    \A i, j \in 1..Len(frames) : i < j => frames[i] # frames[j]

\* C18: under every interleaving of frame processing with force_commit(),
\* pause() and resume(), no captured frame is in two emitted segments or
\* twice in one, no emitted segment is empty, and the frames of an utterance
\* that was emitted (by the silence transition or by a forced flush) are not
\* kept in the buffer to be emitted again.  (MicSpec)
C18_AtMostOnce ==
    /\ NoRepeat(EmittedFrames(micEvents))
    /\ \A k \in 1..Len(micEvents) : WavRead(micEvents[k].speech).frames # <<>>
    /\ pcF # "fc_reset" => NoRepeat(EmittedFrames(micEvents) \o audio_frames)

\* one utterance was emitted by the silence transition and a later one by a
\* forced flush
C18_Witness ==
    /\ enable_vad /\ nCommits = 1 /\ is_emit /\ pcF = "idle"
    /\ Len(micEvents) = 2
    /\ resumed

\* the identifiers of the frames of a sequence
FrameIds(frames) == [i \in 1..Len(frames) |-> frames[i][1]]

\* C19: with VAD disabled, whatever the frames, (1) the only step that emits
\* is the emission of a force_commit(True), and it emits the whole buffer;
\* (2) every frame the per-frame step processes is appended to the buffer
\* with the speaking flag set, silence frames too; (3) as long as every
\* force_commit so far asked to emit, the emitted segments followed by the
\* buffer are all the frames processed so far, in order: each call emitted
\* everything accumulated since the call before it.  (FlushSpec)
C19_OnlyForceCommitEmits ==
    /\ [][(~enable_vad /\ micEvents' # micEvents) =>
             /\ pcF = "fc_emit" /\ is_emit
             /\ micEvents' = Append(micEvents, VADEvent(audio_frames))]_vars
    /\ [][(~enable_vad /\ nfed' # nfed) =>
             /\ audio_frames' = Append(audio_frames, data)
             /\ is_speaking'
             /\ micEvents' = micEvents]_vars
    /\ []((~enable_vad /\ pcF # "fc_reset" /\ \A i \in 1..Len(fcLog) : fcLog[i])
            => FrameIds(EmittedFrames(micEvents) \o audio_frames)
                  = [i \in 1..nfed |-> i])

\* with VAD disabled two force_commit(True) calls each emitted the frames
\* accumulated before it, a silence frame among them
C19_Witness ==
    /\ ~enable_vad /\ nCommits = 2 /\ pcF = "idle"
    /\ Len(micEvents) = 2
    /\ \E f \in { EmittedFrames(micEvents)[i] :
                     i \in 1..Len(EmittedFrames(micEvents)) } : ~is_speech(f)

\* C20: when resume() sets the toggle on a worker blocked in wait(), then,
\* unless pause() is called afterwards, stop() is called, a step of the loop
\* raises, or the device has no further frame, the worker wakes up, has the
\* stream active and reads a frame that reaches the VAD step.  (MicLiveSpec)
C20_ResumeWakes ==
    (wokeAt >= 0 /\ nread = wokeAt)
        ~> \/ wokeAt >= 0 /\ nread = wokeAt + 1 /\ pcW = "vad" /\ stream = "active"
           \/ wokeAt = -1
           \/ stop_flag
           \/ fault \in Faults
           \/ DeviceStalled

\* the worker was blocked with frames already read, resume() woke it, and the
\* next frame is at the VAD step with the stream active
C20_Witness ==
    /\ wokeAt >= 1 /\ nread = wokeAt + 1
    /\ pcW = "vad" /\ stream = "active"
    /\ talk_enabled /\ ~stop_flag /\ fault = "none"

(***************************************************************************)
(* Claims about the construction of SmartKeyboard, checked under KbdSpec.  *)
(***************************************************************************)
\* every string of the list is one str_to_Key resolves
AllValid(list) == \A i \in 1..Len(list) : str_to_Key(list[i]).ok

\* two strings of the list resolve to the same physical key
DuplicateResolved(list) ==
    \E i, j \in 1..Len(list) :
        /\ i < j
        /\ str_to_Key(list[i]).ok /\ str_to_Key(list[j]).ok
        /\ str_to_Key(list[i]).key = str_to_Key(list[j]).key

\* C14 as stated: construction succeeds for every list of valid strings whose
\* resolved keys are pairwise distinct, and fails for every list in which two
\* strings resolve to the same physical key.  (KbdSpec)
C14_Original ==
    /\ (AllValid(kbd_cfg) /\ ~DuplicateResolved(kbd_cfg)) => kbd_ok
    /\ DuplicateResolved(kbd_cfg) => ~kbd_ok

\* C15 as stated: construction fails when the hotkey list is empty.
\* (KbdSpec)
C15_Original == kbd_cfg = <<>> => ~kbd_ok


\* a step that delivers a press notification of key k, and one that delivers
\* a release notification of key k
PressOf(k) == nNotes' = nNotes + 1 /\ kstat'[k].presses = kstat[k].presses + 1
ReleaseOf(k) == nNotes' = nNotes + 1 /\ k \in down /\ down' = down \ {k}

\* C21: a press of a key that is not a configured hotkey, a press of any
\* hotkey while the debounce flag is set, and a release of a key other than
\* the currently held key each leave the debounce flag and the held-key
\* record as they were and emit no event.
C21_IgnoredNotifications ==
    [][\A k \in PhysKeys :
          (\/ PressOf(k) /\ k \notin hotkeys
           \/ PressOf(k) /\ k \in hotkeys /\ toggle_debounce
           \/ ReleaseOf(k) /\ k # current_hotkey)
          => UNCHANGED <<toggle_debounce, current_hotkey, kbdEvents>>]_vars

\* hotkey h is held and has repeated; while it was held another hotkey g was
\* pressed and released and a key that is no hotkey was pressed and
\* released: h is still the held key and its event is the only one
C21_Witness ==
    \E h, g \in hotkeys : \E k \in PhysKeys \ hotkeys :
        /\ h # g
        /\ down = {h}
        /\ current_hotkey = h /\ toggle_debounce
        /\ kstat[h].cycles = 1 /\ kstat[h].presses >= 2
        /\ kstat[g].cycles = 1 /\ ~kstat[g].clean
        /\ kstat[k].cycles = 1 /\ ~kstat[k].clean
        /\ kbdEvents = << Key_to_str(h) >>

\* C25: in every reachable state of SmartKeyboard the debounce flag is set
\* exactly when a held key is recorded, the recorded held key is one of the
\* configured hotkeys, and an event is emitted only by a step that switches
\* the debounce flag from clear to set (and it carries the held key's name).
C25_DebounceInvariant ==
    /\ [](/\ toggle_debounce <=> current_hotkey # NoKey
          /\ current_hotkey # NoKey => current_hotkey \in hotkeys)
    /\ [][kbdEvents' # kbdEvents =>
             /\ ~toggle_debounce /\ toggle_debounce'
             /\ kbdEvents' = Append(kbdEvents, Key_to_str(current_hotkey'))]_vars

\* the second cycle of a hotkey is under way and a cycle of another hotkey
\* lies in between: three events, the flag set, the held key recorded
C25_Witness ==
    \E h, g \in hotkeys :
        /\ h # g
        /\ toggle_debounce /\ current_hotkey = h /\ h \in down
        /\ kstat[h].cycles = 2
        /\ kstat[g].cycles = 1 /\ g \notin down
        /\ Len(kbdEvents) = 3

\* C22 as stated: once stop() has been called the worker eventually leaves
\* start(), whatever pause() and resume() calls and whatever steps of the
\* worker follow (unless the device stalls a read for ever).  (MicFairSpec)
C22_Original ==
    (stop_flag /\ pcS = "set_event") ~> (pcW = "done" \/ DeviceStalled)

\* C23 as stated: the worker issues stream.read only while the stream is
\* active, so no read ever fails for being made on a stopped or closed
\* stream.  (MicSpec)
C23_Original ==
    /\ pcW = "read" => stream = "active"
    /\ fault # "read_stopped"

=============================================================================
